---- MODULE Spec2Model ----
(***************************************************************************)
(* Model of detect_shiftjis.py: the encoding verdict (analyze_file), the   *)
(* backed-up in-place conversion (backup_and_convert_to_utf8) and the scan *)
(* loop of main.                                                           *)
(*                                                                         *)
(* Python strings are sequences of one-character strings, so that lower(), *)
(* replace() and the substring test `in` are computed character by         *)
(* character.  File contents are sequences of byte values, decoded text is *)
(* a sequence of Unicode code points.  Confidences are in hundredths.      *)
(***************************************************************************)
EXTENDS Integers, Sequences, FiniteSets, TLC

\* ------------------------------------------------------------------ bounds
MaxLen == 2     \* longest initial file content, in bytes
MaxRuns == 2    \* number of times main is run over the same tree
MaxFaults == 1  \* number of file operations that fail in one behaviour
MaxPartial == 1 \* most bytes a write that fails part-way leaves in the file

\* ------------------------------------------------------- string literals
S_Shift_JIS == <<"S","h","i","f","t","_","J","I","S">>
S_heuristic == <<"(","h","e","u","r","i","s","t","i","c",")">>
S_not == <<"n","o","t"," ">>
S_unknown == <<"u","n","k","n","o","w","n">>
S_error == <<"e","r","r","o","r",":"," ">>
S_MacRoman == <<"M","a","c","R","o","m","a","n">>
S_Windows1252 == <<"W","i","n","d","o","w","s","-","1","2","5","2">>
S_jis == <<".","j","i","s">>
S_PermissionDenied == <<"[","E","r","r","n","o"," ","1","3","]"," ","P","e","r","m","i","s","s","i","o","n"," ","d","e","n","i","e","d",":"," ","'">>
UpperCase == <<"A","B","C","D","E","F","G","H","I","J","K","L","M","N","O","P","Q","R","S","T","U","V","W","X","Y","Z">>
LowerCase == <<"a","b","c","d","e","f","g","h","i","j","k","l","m","n","o","p","q","r","s","t","u","v","w","x","y","z">>

\* None and the empty string are both falsy in every place the program
\* tests them (`x or ...`, `if backup_root and root`); both are <<>> here.
None == <<>>
NoneConf == 0 - 1      \* chardet reported no confidence

\* --------------------------------------------------- Python str operations
\* str.lower() on one character
LowerChar(c) ==
    IF \E i \in 1..Len(UpperCase) : UpperCase[i] = c
    THEN LowerCase[CHOOSE i \in 1..Len(UpperCase) : UpperCase[i] = c]
    ELSE c

\* str.lower()
Lower(s) == [i \in 1..Len(s) |-> LowerChar(s[i])]

\* str.replace(ch, '')
RECURSIVE Remove(_, _)
Remove(s, ch) ==
    IF s = <<>> THEN <<>>
    ELSE IF Head(s) = ch THEN Remove(Tail(s), ch)
    ELSE <<Head(s)>> \o Remove(Tail(s), ch)

\* sub in s
Contains(sub, s) ==
    \E i \in 1..(Len(s) - Len(sub) + 1) : SubSeq(s, i, i + Len(sub) - 1) = sub

\* ------------------------------------------------------------ the codecs
\* The byte values file contents are built from: an ASCII letter, a lead
\* byte of both Shift_JIS and cp932 (0x82) and a lead byte of cp932 only
\* (0x87, NEC row 13).
Alphabet == {65, 130, 135}

NoChar == 0 - 1
ReplacementChar == 65533        \* U+FFFD

KnownCodecs == {"shift_jis", "cp932"}

\* single-byte part of the decoders (CPython _codecs_jp: shift_jis, cp932)
SingleByte(enc, c) ==
    IF enc = "shift_jis"
    THEN IF c < 128 THEN c
         ELSE IF c >= 161 /\ c <= 223 THEN 65216 + c      \* half-width kana
         ELSE NoChar
    ELSE IF c <= 128 THEN c
         ELSE IF c = 160 THEN 63728
         ELSE IF c >= 161 /\ c <= 223 THEN 65216 + c
         ELSE IF c >= 253 THEN 63729 + (c - 253)
         ELSE NoChar

\* double-byte tables of the two codecs, restricted to the byte values that
\* contents built from Alphabet, and their UTF-8 conversions, contain:
\* {41, 82, 87, BD, BF, EF}.  Every pair over these bytes that is not listed
\* is invalid in the codec.
JisX0208 ==
    ( <<130,130>> :> 65346       \* 82 82 -> U+FF42
   @@ <<130,135>> :> 65351       \* 82 87 -> U+FF47
   @@ <<130,189>> :> 12383       \* 82 BD -> U+305F
   @@ <<130,191>> :> 12385       \* 82 BF -> U+3061
   @@ <<130,239>> :> 12433 )     \* 82 EF -> U+3091

Cp932Ext ==
    ( <<135,65>>  :> 9313        \* 87 41 -> U+2461
   @@ <<135,130>> :> 8470        \* 87 82 -> U+2116
   @@ <<135,135>> :> 12966 )     \* 87 87 -> U+32A6

DoubleByte(enc) == IF enc = "cp932" THEN Cp932Ext @@ JisX0208 ELSE JisX0208

DecodeFailure == [ok |-> FALSE, text |-> <<>>]

Prepend(cp, r) == IF r.ok THEN [ok |-> TRUE, text |-> <<cp>> \o r.text] ELSE r

\* the decoding loop of a known codec: a single byte, else a valid pair,
\* else an error of length one (raised under strict, U+FFFD under replace)
RECURSIVE DecodeBytes(_, _, _)
DecodeBytes(d, enc, errors) ==
    IF d = <<>> THEN [ok |-> TRUE, text |-> <<>>]
    ELSE IF SingleByte(enc, d[1]) # NoChar
         THEN Prepend(SingleByte(enc, d[1]), DecodeBytes(Tail(d), enc, errors))
    ELSE IF Len(d) >= 2 /\ <<d[1], d[2]>> \in DOMAIN DoubleByte(enc)
         THEN Prepend(DoubleByte(enc)[<<d[1], d[2]>>],
                      DecodeBytes(SubSeq(d, 3, Len(d)), enc, errors))
    ELSE IF errors = "replace"
         THEN Prepend(ReplacementChar, DecodeBytes(Tail(d), enc, errors))
    ELSE DecodeFailure

\* bytes.decode(enc, errors): an unknown codec name raises LookupError
\* whatever the error mode
Decode(d, enc, errors) ==
    IF enc \in KnownCodecs THEN DecodeBytes(d, enc, errors) ELSE DecodeFailure

\* str.encode('utf-8') of one code point of the basic plane
Utf8Char(cp) ==
    IF cp < 128 THEN <<cp>>
    ELSE IF cp < 2048 THEN <<192 + (cp \div 64), 128 + (cp % 64)>>
    ELSE <<224 + (cp \div 4096), 128 + ((cp \div 64) % 64), 128 + (cp % 64)>>

RECURSIVE Utf8Encode(_)
Utf8Encode(t) ==
    IF t = <<>> THEN <<>> ELSE Utf8Char(Head(t)) \o Utf8Encode(Tail(t))

\* --------------------------------------------------------------- the tree
Root == <<"r">>                    \* the PATH argument of main
BackupDir == <<"b">>               \* the --backup-dir argument, when given
FileA == <<"r","/","A",".","j","a","v","a">>
FileM == <<"r","/","M","a","c","R","o","m","a","n",".","j","a","v","a">>
JavaFiles == {FileA, FileM}

\* os.path.relpath(path, start); every path of the model lies under start
RelPath(p, start) == SubSeq(p, Len(start) + 2, Len(p))

\* os.path.join(a, b) for a relative b
Join(a, b) == a \o <<"/">> \o b

\* where the backup of path goes
BackupPath(p, rt, br) ==
    IF br # None /\ rt # None
    THEN Join(br, RelPath(p, rt)) \o S_jis
    ELSE p \o S_jis

AllPaths ==
    JavaFiles \cup {BackupPath(f, rt, br) : f \in JavaFiles, rt \in {None, Root}, br \in {None, BackupDir}}

File(b) == [exists |-> TRUE, bytes |-> b]
NoFile == [exists |-> FALSE, bytes |-> <<>>]

\* all byte sequences over Alphabet of length at most n
RECURSIVE BytesUpTo(_)
BytesUpTo(n) ==
    IF n = 0 THEN {<<>>}
    ELSE LET S == BytesUpTo(n - 1)
         IN S \cup {<<b>> \o s : b \in Alphabet, s \in {t \in S : Len(t) = n - 1}}

Buffers == BytesUpTo(MaxLen)

\* contents of the files of a scanned tree: ASCII, a two-byte Shift_JIS
\* character, a cp932-only character, a lone lead byte
TreeContents == {<<65>>, <<130, 130>>, <<135, 65>>, <<130>>}

\* -------------------------------------------------------- the environment
\* str(e) of the OSError of a failed open(path): it names the path
OSErrorText(p) == S_PermissionDenied \o p \o <<"'">>

\* open(path, 'rb').read(): the content, or an OSError
ReadFile(fsys, p, mayFail) ==
    (IF mayFail \/ ~fsys[p].exists THEN {[ok |-> FALSE, bytes |-> <<>>]} ELSE {})
    \cup (IF fsys[p].exists THEN {[ok |-> TRUE, bytes |-> fsys[p].bytes]} ELSE {})

Max(a, b) == IF a > b THEN a ELSE b
Min(a, b) == IF a < b THEN a ELSE b

\* open(path, 'wb').write(bytes): written in full; or open fails and the
\* file is as it was; or the file is truncated and the write fails part-way
WriteFile(old, bytes, mayFail) ==
    {[ok |-> TRUE, file |-> File(bytes)]}
    \cup (IF mayFail
          THEN {[ok |-> FALSE, file |-> old]}
               \cup {[ok |-> FALSE, file |-> File(SubSeq(bytes, 1, k))] :
                        k \in 0..Min(MaxPartial, Max(0, Len(bytes) - 1))}
          ELSE {})

\* what chardet.detect(data) can answer: a label or none, a confidence or none
ChardetEncodings ==
    { None,
      <<"S","H","I","F","T","_","J","I","S">>,
      <<"S","h","i","f","t","-","J","I","S">>,
      <<"c","p","_","9","3","2">>,
      S_MacRoman,
      <<"u","t","f","-","8">> }
ChardetConfidences == {NoneConf, 59, 60}
ChardetAnswers ==
    [raises : {FALSE}, encoding : ChardetEncodings, confidence : ChardetConfidences]
\* the answers drawn while main scans a tree
ScanAnswers ==
    [raises : {FALSE}, confidence : {59, 60},
     encoding : {<<"S","H","I","F","T","_","J","I","S">>, <<"u","t","f","-","8">>}]
ChardetRaises == [raises |-> TRUE, encoding |-> None, confidence |-> NoneConf]
NoAnswer == [raises |-> FALSE, encoding |-> None, confidence |-> NoneConf]

\* ------------------------------------------------------------ the verdict
\* mutant: the probe decodes with the Windows superset instead of shift_jis
detect_shift_jis_bytes_cp932(d) == Decode(d, "cp932", "strict").ok

detect_shift_jis_bytes(d) == Decode(d, "shift_jis", "strict").ok

detect_with_chardet(present, r) ==
    IF ~present THEN [enc |-> S_unknown, conf |-> 0]
    ELSE [enc  |-> IF r.encoding = None THEN S_unknown ELSE r.encoding,
          conf |-> IF r.confidence = NoneConf THEN 0 ELSE r.confidence]

ShiftJisAliases ==
    { <<"s","h","i","f","t","j","i","s">>,
      <<"s","h","i","f","t","_","j","i","s">>,
      <<"s","j","i","s">>,
      <<"c","p","9","3","2">> }

\* mutant: the label is not lower-cased before the comparison
IsShiftJisAlias_NoLower(enc) == enc # <<>> /\ Remove(enc, "-") \in ShiftJisAliases

IsShiftJisAlias(enc) == enc # <<>> /\ Remove(Lower(enc), "-") \in ShiftJisAliases

ConfThreshold == 60

\* mutant: the threshold itself counts as low confidence
LowConfidence_Inclusive(c) == c <= ConfThreshold

LowConfidence(c) == c < ConfThreshold

Verdict(res, c, p) == [result |-> res, conf |-> c, probed |-> p]

\* analyze_file after the read: rd is the outcome of the read, r the answer
\* of chardet.  `probed` records whether detect_shift_jis_bytes was called.
analyze_file(p, rd, present, r) ==
    IF ~rd.ok THEN Verdict(S_error \o OSErrorText(p), 0, FALSE)
    ELSE IF present
    THEN LET d == detect_with_chardet(present, r)
         IN IF IsShiftJisAlias(d.enc) THEN Verdict(S_Shift_JIS, d.conf, FALSE)
            ELSE IF LowConfidence(d.conf) /\ detect_shift_jis_bytes(rd.bytes)
                 THEN Verdict(S_Shift_JIS \o S_heuristic, d.conf, TRUE)
            ELSE Verdict(IF d.enc = <<>> THEN S_unknown ELSE d.enc, d.conf,
                         LowConfidence(d.conf))
    ELSE IF detect_shift_jis_bytes(rd.bytes)
         THEN Verdict(S_Shift_JIS, 100, TRUE)
         ELSE Verdict(S_not \o S_Shift_JIS, 0, TRUE)

\* the test of main that sends a file to conversion
Convertible(res) ==
    Contains(S_Shift_JIS, res) \/ Contains(S_MacRoman, res) \/ Contains(S_Windows1252, res)

\* --------------------------------------------------------- the conversion
\* the decoding loop of backup_and_convert_to_utf8 over
\* (src_encoding, 'cp932', 'shift_jis'); DecodeFailure is text = None
RECURSIVE DecodeLoop(_, _, _)
DecodeLoop(cands, tried, d) ==
    IF cands = <<>> THEN DecodeFailure
    ELSE IF Head(cands) \in tried THEN DecodeLoop(Tail(cands), tried, d)
    ELSE LET strict == Decode(d, Head(cands), "strict")
             repl   == Decode(d, Head(cands), "replace")
         IN IF strict.ok THEN strict
            ELSE IF repl.ok THEN repl
            ELSE DecodeLoop(Tail(cands), tried \cup {Head(cands)}, d)

DecodeCandidates(src) == <<src, "cp932", "shift_jis">>

\* ------------------------------------------------------------------ state
VARIABLES
    chardet_present,  \* the import of chardet succeeded
    rootExists,       \* os.path.exists(root)
    do_convert,       \* --convert
    backup_dir,       \* --backup-dir, or None
    fs,               \* the files: path -> File(bytes) or NoFile
    pc,               \* where the program is
    runs,             \* how many runs of main have started
    todo,             \* main: the files still to process, in os.walk order
    listed,           \* main: the files enumerated by this run
    result, conf,     \* the verdict of the last analyze_file
    det,              \* what chardet answered for it
    rdFail,           \* its read failed
    probed,           \* it ran the decode probe
    out,              \* the lines main printed in this run
    exitCode,         \* the exit status of the run, NoExit while running
    path, root_arg, backup_root, src_encoding,   \* arguments of the conversion
    data, backup_full, text, ret,                \* its locals and its result
    orig0,            \* content of path when the conversion was called
    bkFail,           \* making the backup directory or writing the backup failed
    faults,           \* how many file operations have failed so far
    first0            \* per file: its content before its first successful conversion

vars == <<chardet_present, rootExists, do_convert, backup_dir, fs, pc, runs, todo,
          listed, result, conf, det, rdFail, probed, out, exitCode, path, root_arg,
          backup_root, src_encoding, data, backup_full, text, ret, orig0, bkFail, faults, first0>>

args == <<chardet_present, rootExists, do_convert, backup_dir>>
verdictVars == <<result, conf, det, rdFail, probed>>
frame == <<path, root_arg, backup_root, src_encoding, orig0>>
mainVars == <<runs, todo, listed, out, exitCode>>

NoExit == 0 - 1
NoRet == [ok |-> FALSE, msg |-> "none"]
Never == [known |-> FALSE, bytes |-> <<>>]

\* the values every variable starts with, but for the inputs
Blank ==
    /\ runs = 1 /\ todo = <<>> /\ listed = {}
    /\ result = <<>> /\ conf = 0 /\ det = NoAnswer /\ rdFail = FALSE /\ probed = FALSE
    /\ out = <<>> /\ exitCode = NoExit
    /\ path = None /\ root_arg = None /\ backup_root = None /\ src_encoding = "shift_jis"
    /\ data = <<>> /\ backup_full = None /\ text = DecodeFailure /\ ret = NoRet
    /\ orig0 = <<>> /\ bkFail = FALSE /\ faults = 0 /\ first0 = [f \in JavaFiles |-> Never]

\* ------------------------------------------- backup_and_convert_to_utf8
MayFail == faults < MaxFaults

\* count a failed file operation
Fault(failed) == faults' = IF failed THEN faults + 1 ELSE faults

Return(ok, msg) == ret' = [ok |-> ok, msg |-> msg] /\ pc' = "cv_ret"

\* lines 79-83: read the original
CvRead ==
    /\ pc = "cv_read"
    /\ \E rd \in ReadFile(fs, path, MayFail) :
          /\ Fault(~rd.ok)
          /\ IF rd.ok
             THEN data' = rd.bytes /\ pc' = "cv_backup" /\ ret' = ret
             ELSE data' = data /\ Return(FALSE, "read error")
    /\ UNCHANGED <<args, fs, mainVars, verdictVars, frame, backup_full, text, first0>>
    /\ UNCHANGED bkFail

\* mutant: an existing backup file is kept instead of being overwritten
CvBackup_KeepExisting ==
    /\ pc = "cv_backup"
    /\ LET bf == BackupPath(path, root_arg, backup_root)
       IN /\ backup_full' = bf
          /\ \E made \in (IF MayFail THEN BOOLEAN ELSE {TRUE}) :
                IF backup_root # None /\ root_arg # None /\ ~made
                THEN /\ fs' = fs /\ Fault(TRUE) /\ bkFail' = TRUE
                     /\ Return(FALSE, "backup dir create error")
                ELSE IF fs[bf].exists
                THEN fs' = fs /\ Fault(FALSE) /\ bkFail' = FALSE /\ pc' = "cv_decode" /\ ret' = ret
                ELSE \E w \in WriteFile(fs[bf], data, MayFail) :
                        /\ fs' = [fs EXCEPT ![bf] = w.file]
                        /\ Fault(~w.ok) /\ bkFail' = ~w.ok
                        /\ IF w.ok THEN pc' = "cv_decode" /\ ret' = ret
                                   ELSE Return(FALSE, "backup error")
    /\ UNCHANGED <<args, mainVars, verdictVars, frame, data, text, first0>>

\* mutant: a failed backup write does not stop the conversion
CvBackup_IgnoreFailure ==
    /\ pc = "cv_backup"
    /\ LET bf == BackupPath(path, root_arg, backup_root)
       IN /\ backup_full' = bf
          /\ \E made \in (IF MayFail THEN BOOLEAN ELSE {TRUE}) :
                IF backup_root # None /\ root_arg # None /\ ~made
                THEN /\ fs' = fs /\ Fault(TRUE) /\ bkFail' = TRUE
                     /\ Return(FALSE, "backup dir create error")
                ELSE \E w \in WriteFile(fs[bf], data, MayFail) :
                        /\ fs' = [fs EXCEPT ![bf] = w.file]
                        /\ Fault(~w.ok) /\ bkFail' = ~w.ok
                        /\ pc' = "cv_decode" /\ ret' = ret
    /\ UNCHANGED <<args, mainVars, verdictVars, frame, data, text, first0>>

\* lines 85-105: determine the backup path, make its directory, write the backup
CvBackup ==
    /\ pc = "cv_backup"
    /\ LET bf == BackupPath(path, root_arg, backup_root)
       IN /\ backup_full' = bf
          /\ \E made \in (IF MayFail THEN BOOLEAN ELSE {TRUE}) :
                IF backup_root # None /\ root_arg # None /\ ~made
                THEN /\ fs' = fs /\ Fault(TRUE) /\ bkFail' = TRUE
                     /\ Return(FALSE, "backup dir create error")
                ELSE \E w \in WriteFile(fs[bf], data, MayFail) :
                        /\ fs' = [fs EXCEPT ![bf] = w.file]
                        /\ Fault(~w.ok) /\ bkFail' = ~w.ok
                        /\ IF w.ok THEN pc' = "cv_decode" /\ ret' = ret
                                   ELSE Return(FALSE, "backup error")
    /\ UNCHANGED <<args, mainVars, verdictVars, frame, data, text, first0>>

\* lines 107-128: decode
CvDecode ==
    /\ pc = "cv_decode"
    /\ text' = DecodeLoop(DecodeCandidates(src_encoding), {}, data)
    /\ IF text'.ok THEN pc' = "cv_write" /\ ret' = ret
                   ELSE Return(FALSE, "decode error")
    /\ UNCHANGED <<args, fs, mainVars, verdictVars, frame, data, backup_full, faults, first0>>
    /\ UNCHANGED bkFail

\* lines 130-138: overwrite the original with the UTF-8 bytes
CvWrite ==
    /\ pc = "cv_write"
    /\ \E w \in WriteFile(fs[path], Utf8Encode(text.text), MayFail) :
          /\ fs' = [fs EXCEPT ![path] = w.file]
          /\ Fault(~w.ok)
          /\ IF w.ok
             THEN /\ Return(TRUE, "backed up and converted to UTF-8")
                  /\ first0' = IF path \in JavaFiles /\ ~first0[path].known
                               THEN [first0 EXCEPT ![path] = [known |-> TRUE, bytes |-> orig0]]
                               ELSE first0
             ELSE Return(FALSE, "write error") /\ first0' = first0
    /\ UNCHANGED <<args, mainVars, verdictVars, frame, data, backup_full, text>>
    /\ UNCHANGED bkFail

\* a direct call backup_and_convert_to_utf8(path, root, backup_root, src_encoding)
SrcEncodings == {"shift_jis", "cp932", "sjis-win"}      \* the last is no codec of Python

Call ==
    /\ pc = "call"
    /\ \E p \in {f \in JavaFiles : fs[f].exists}, rt \in {None, Root},
          br \in {None, BackupDir}, enc \in SrcEncodings :
          /\ path' = p /\ root_arg' = rt /\ backup_root' = br /\ src_encoding' = enc
          /\ orig0' = fs[p].bytes
    /\ pc' = "cv_read"
    /\ UNCHANGED <<args, fs, mainVars, verdictVars, data, backup_full, text, ret, faults, first0>>
    /\ bkFail' = FALSE

\* ------------------------------------------------------------------- main
\* list(iter_java_files(root)): the files of the tree, in the order of os.walk
Orders(S) ==
    {q \in [1..Cardinality(S) -> S] : \A i, j \in 1..Cardinality(S) : q[i] = q[j] => i = j}

Row(p, res, c) == [kind |-> "row", path |-> p, result |-> res, conf |-> c, action |-> "", ok |-> TRUE]
ActionRow(p, res, c, r) ==
    [kind |-> "action", path |-> p, result |-> res, conf |-> c, action |-> r.msg, ok |-> r.ok]
Line(k) == [kind |-> k, path |-> None, result |-> None, conf |-> 0, action |-> "", ok |-> TRUE]

\* lines 155-166: the root check, the enumeration, the header
MainStart ==
    /\ pc = "main"
    /\ IF ~rootExists
       THEN /\ out' = <<Line("Path not found")>>
            /\ exitCode' = 3 /\ pc' = "exit" /\ todo' = <<>> /\ listed' = {}
       ELSE LET files == {f \in JavaFiles : fs[f].exists}
            IN IF files = {}
               THEN /\ out' = <<Line("No .java files found")>>
                    /\ exitCode' = 0 /\ pc' = "exit" /\ todo' = <<>> /\ listed' = {}
               ELSE /\ \E q \in Orders(files) : todo' = q
                    /\ listed' = files
                    /\ out' = <<Line("header"), Line("separator")>>
                    /\ exitCode' = exitCode /\ pc' = "loop"
    /\ UNCHANGED <<args, fs, runs, verdictVars, frame, data, backup_full, text, ret, faults,
                   first0>>
    /\ UNCHANGED bkFail

\* what chardet can do in analyze_file: it is asked only when it is present
\* and the read succeeded, and it answers or raises
Answers(rd, answers) ==
    IF chardet_present /\ rd.ok THEN answers \cup {ChardetRaises} ELSE {NoAnswer}

\* lines 168-180: analyze_file(fp), the report row, the decision to convert.
\* An exception of chardet.detect is caught nowhere: it ends the process.
MainLoop ==
    /\ pc = "loop" /\ todo # <<>>
    /\ LET fp == Head(todo)
       IN \E rd \in ReadFile(fs, fp, MayFail) : \E r \in Answers(rd, ScanAnswers) :
             /\ det' = r /\ rdFail' = ~rd.ok /\ Fault(~rd.ok)
             /\ IF r.raises
                THEN /\ pc' = "exit" /\ exitCode' = 1
                     /\ UNCHANGED <<result, conf, probed, out, todo, frame, ret>>
                ELSE LET v == analyze_file(fp, rd, chardet_present, r)
                     IN /\ result' = v.result /\ conf' = v.conf /\ probed' = v.probed
                        /\ out' = Append(out, Row(fp, v.result, v.conf))
                        /\ exitCode' = exitCode
                        /\ IF do_convert /\ Convertible(v.result)
                           THEN /\ path' = fp
                                /\ root_arg' = IF backup_dir # None THEN Root ELSE None
                                /\ backup_root' = backup_dir
                                /\ src_encoding' = "shift_jis"
                                /\ orig0' = fs[fp].bytes
                                /\ ret' = NoRet
                                /\ pc' = "cv_read" /\ todo' = todo
                           ELSE /\ pc' = "loop" /\ todo' = Tail(todo)
                                /\ UNCHANGED <<frame, ret>>
    /\ UNCHANGED <<args, fs, runs, listed, data, backup_full, text, first0>>
    /\ bkFail' = FALSE

\* lines 181-182: the action line of a converted file
MainReturn ==
    /\ pc = "cv_ret"
    /\ out' = Append(out, ActionRow(path, result, conf, ret))
    /\ todo' = Tail(todo)
    /\ pc' = "loop"
    /\ UNCHANGED <<args, fs, runs, listed, exitCode, verdictVars, frame, data, backup_full,
                   text, ret, faults, first0>>
    /\ UNCHANGED bkFail

\* line 184
MainExit ==
    /\ pc = "loop" /\ todo = <<>>
    /\ exitCode' = 0 /\ pc' = "exit"
    /\ UNCHANGED <<args, fs, runs, todo, listed, out, verdictVars, frame, data, backup_full,
                   text, ret, faults, first0>>
    /\ UNCHANGED bkFail

\* the program is run again over the same root with the same flags: a new
\* process, of which only the files remain
Rerun ==
    /\ pc = "exit" /\ runs < MaxRuns
    /\ runs' = runs + 1 /\ pc' = "main"
    /\ out' = <<>> /\ exitCode' = NoExit /\ todo' = <<>> /\ listed' = {}
    /\ result' = <<>> /\ conf' = 0 /\ det' = NoAnswer /\ rdFail' = FALSE /\ probed' = FALSE
    /\ path' = None /\ root_arg' = None /\ backup_root' = None /\ src_encoding' = "shift_jis"
    /\ data' = <<>> /\ backup_full' = None /\ text' = DecodeFailure /\ ret' = NoRet
    /\ orig0' = <<>>
    /\ UNCHANGED <<args, fs, faults, first0>>
    /\ bkFail' = FALSE

\* a direct call analyze_file(path)
AnalyzeCall ==
    /\ pc = "analyze"
    /\ \E fp \in JavaFiles : \E rd \in ReadFile(fs, fp, MayFail) :
       \E r \in Answers(rd, ChardetAnswers) :
          /\ path' = fp /\ det' = r /\ rdFail' = ~rd.ok /\ Fault(~rd.ok)
          /\ IF r.raises
             THEN pc' = "a_raise" /\ UNCHANGED <<result, conf, probed>>
             ELSE LET v == analyze_file(fp, rd, chardet_present, r)
                  IN result' = v.result /\ conf' = v.conf /\ probed' = v.probed /\ pc' = "a_ret"
    /\ UNCHANGED <<args, fs, mainVars, root_arg, backup_root, src_encoding, orig0, data,
                   backup_full, text, ret, first0>>
    /\ UNCHANGED bkFail

\* ---------------------------------------------------------- specifications
\* runs of main over a tree of at most two .java files
Init ==
    /\ chardet_present \in BOOLEAN /\ do_convert \in BOOLEAN
    /\ backup_dir \in {None, BackupDir}
    /\ rootExists \in BOOLEAN
    /\ fs \in [AllPaths -> {NoFile} \cup {File(b) : b \in TreeContents}]
    /\ \A p \in AllPaths : fs[p].exists => rootExists /\ p \in JavaFiles
    /\ pc = "main"
    /\ Blank

Next == MainStart \/ MainLoop \/ CvRead \/ CvBackup \/ CvDecode \/ CvWrite \/ MainReturn
        \/ MainExit \/ Rerun

Spec == Init /\ [][Next]_vars

\* one direct call of backup_and_convert_to_utf8 on a file of any content,
\* its backup paths free or already taken
InitCall ==
    /\ chardet_present = FALSE /\ do_convert = TRUE /\ backup_dir = None /\ rootExists = TRUE
    /\ \E b \in Buffers, old \in {NoFile, File(<<65>>)} :
          fs = [p \in AllPaths |-> IF p = FileA THEN File(b)
                                   ELSE IF p \in JavaFiles THEN NoFile ELSE old]
    /\ pc = "call"
    /\ Blank

NextCall == Call \/ CvRead \/ CvBackup \/ CvDecode \/ CvWrite

SpecCall == InitCall /\ [][NextCall]_vars

\* one direct call of analyze_file on a file of any content
InitAnalyze ==
    /\ chardet_present \in BOOLEAN /\ do_convert = FALSE /\ backup_dir = None
    /\ rootExists = TRUE
    /\ \E b \in Buffers :
          fs = [p \in AllPaths |-> IF p = FileA THEN File(b) ELSE NoFile]
    /\ pc = "analyze"
    /\ Blank

NextAnalyze == AnalyzeCall

SpecAnalyze == InitAnalyze /\ [][NextAnalyze]_vars

\* ------------------------------------------------------------------ claims
InConversion == pc \in {"cv_read", "cv_backup", "cv_decode", "cv_write", "cv_ret"}

\* the confidence and the label detect_with_chardet hands to analyze_file
DetConf == IF det.confidence = NoneConf THEN 0 ELSE det.confidence
DetLabel == IF det.encoding = None THEN S_unknown ELSE det.encoding

\* the strict Shift_JIS decoding of the file analyze_file was called on
ProbeOk == Decode(fs[path].bytes, "shift_jis", "strict").ok

\* C1: when the original is about to be opened for writing, the backup file
\* exists and holds the bytes the original had when the call started; so it
\* does whenever the call returns success.
C1_BackupBeforeOverwrite ==
    /\ pc = "cv_write" => fs[backup_full] = File(orig0)
    /\ (pc = "cv_ret" /\ ret.ok) => fs[backup_full] = File(orig0)

\* C1 witness: a successful call that changed the original, its backup in place
C1_Witness ==
    /\ pc = "cv_ret" /\ ret.ok
    /\ fs[path].bytes # orig0
    /\ fs[backup_full] = File(orig0)

\* C2: when making the backup directory or writing the backup fails, the call
\* returns success=False without going on to decode or write, and the original
\* holds the bytes it had.
C2_BackupFailureLeavesOriginal ==
    bkFail => /\ pc \notin {"cv_backup", "cv_decode", "cv_write"}
              /\ ~ret.ok /\ fs[path] = File(orig0)

\* C2 witness: the backup write failed part-way and the call returned
C2_Witness ==
    /\ bkFail /\ pc = "cv_ret" /\ ret.msg = "backup error"
    /\ fs[backup_full] # File(orig0) /\ fs[path] = File(orig0)

\* C3 (as claimed): a buffer that fails strict decoding under src_encoding and
\* decodes under strict cp932 is converted to its strict cp932 decoding.
C3_Cp932Fallback ==
    ( /\ pc = "cv_ret" /\ ret.ok
      /\ ~Decode(data, src_encoding, "strict").ok
      /\ Decode(data, "cp932", "strict").ok )
    => fs[path].bytes = Utf8Encode(Decode(data, "cp932", "strict").text)

\* C4: without chardet the verdict of a readable file is Shift_JIS with
\* confidence 1.0 when its bytes decode under strict shift_jis, and a label
\* other than the Shift_JIS ones with confidence 0.0 when they do not.
C4_HeuristicOnlyVerdict ==
    (pc = "a_ret" /\ ~chardet_present /\ ~rdFail)
    => IF ProbeOk
       THEN result = S_Shift_JIS /\ conf = 100
       ELSE conf = 0 /\ result \notin {S_Shift_JIS, S_Shift_JIS \o S_heuristic}

\* C4 witness: a file of two bytes that is no Shift_JIS got the negative verdict
C4_Witness ==
    /\ pc = "a_ret" /\ ~chardet_present /\ ~rdFail
    /\ Len(fs[path].bytes) = 2 /\ ~ProbeOk
    /\ result = S_not \o S_Shift_JIS /\ conf = 0

\* C5 (as claimed): a detected label that, lower-cased and stripped of hyphens
\* and underscores, is one of shiftjis, sjis, cp932 gets the verdict Shift_JIS
\* with the confidence of chardet, and the probe is not run.
C5_AliasStrippingUnderscores ==
    ( /\ pc = "a_ret" /\ chardet_present /\ ~rdFail
      /\ Remove(Remove(Lower(det.encoding), "-"), "_")
            \in {<<"s","h","i","f","t","j","i","s">>, <<"s","j","i","s">>, <<"c","p","9","3","2">>} )
    => result = S_Shift_JIS /\ conf = DetConf /\ ~probed

\* C5 (amended): a detected label that, lower-cased and stripped of hyphens
\* only, is one of shiftjis, shift_jis, sjis, cp932 gets the verdict Shift_JIS
\* with the confidence of chardet, and the probe is not run.
C5_AliasStrippingHyphens ==
    ( /\ pc = "a_ret" /\ chardet_present /\ ~rdFail
      /\ Remove(Lower(det.encoding), "-")
            \in {<<"s","h","i","f","t","j","i","s">>, <<"s","h","i","f","t","_","j","i","s">>,
                 <<"s","j","i","s">>, <<"c","p","9","3","2">>} )
    => result = S_Shift_JIS /\ conf = DetConf /\ ~probed

\* C5 witness: the label Shift-JIS at low confidence on bytes that are no Shift_JIS
C5_Witness ==
    /\ pc = "a_ret" /\ chardet_present /\ ~rdFail
    /\ det.encoding = <<"S","h","i","f","t","-","J","I","S">> /\ det.confidence = 59
    /\ ~ProbeOk
    /\ result = S_Shift_JIS /\ conf = 59

\* C6 (as claimed): when the read of analyze_file fails, the verdict is an
\* error label with confidence 0.0 and the file is not handed to the conversion.
C6_ReadErrorShortCircuits ==
    rdFail => /\ SubSeq(result, 1, Len(S_error)) = S_error /\ conf = 0
              /\ ~InConversion

\* the files of this run that have a report row
Reported == {out[i].path : i \in {j \in 1..Len(out) : out[j].kind = "row"}}

\* C7 (as claimed): a run ends with exit code 3 when the root does not exist
\* and otherwise with exit code 0 and a report row for every enumerated file.
C7_NoPerFileAbort ==
    pc = "exit" => /\ exitCode = (IF rootExists THEN 0 ELSE 3)
                   /\ listed \subseteq Reported

\* C8: with chardet and a label that is no Shift_JIS alias, the verdict is
\* Shift_JIS(heuristic) with the confidence of chardet when that confidence is
\* below 0.6 and the bytes decode under strict shift_jis; otherwise it is the
\* detected label, or unknown, with the confidence of chardet.
C8_LowConfidenceProbe ==
    ( /\ pc = "a_ret" /\ chardet_present /\ ~rdFail
      /\ Remove(Lower(det.encoding), "-") \notin ShiftJisAliases )
    => IF DetConf < 60 /\ ProbeOk
       THEN result = S_Shift_JIS \o S_heuristic /\ conf = DetConf
       ELSE result = DetLabel /\ conf = DetConf

\* C8 witness: at exactly 0.6 bytes that are Shift_JIS keep the detected label
C8_Witness ==
    /\ pc = "a_ret" /\ chardet_present /\ ~rdFail
    /\ det.encoding = <<"u","t","f","-","8">> /\ det.confidence = 60
    /\ Len(fs[path].bytes) = 2 /\ ProbeOk
    /\ result = <<"u","t","f","-","8">> /\ conf = 60

\* C9 (as claimed): without chardet, a readable file with the negative verdict
\* of the probe is not handed to the conversion.
C9_NegativeVerdictNotConverted ==
    ( /\ do_convert /\ ~chardet_present /\ ~rdFail
      /\ result = S_not \o S_Shift_JIS /\ conf = 0 )
    => ~InConversion

\* the backup path main gives to a file
MainBackupPath(f) == BackupPath(f, IF backup_dir # None THEN Root ELSE None, backup_dir)

\* C10 (as claimed): at the end of every run, the backup of a file that has
\* been converted holds the bytes the file had before its first conversion.
C10_BackupSurvivesReruns ==
    pc = "exit" =>
        \A f \in JavaFiles :
            first0[f].known => fs[MainBackupPath(f)] = File(first0[f].bytes)

====
